---- MODULE Spec2Model ----
(***************************************************************************)
(* A model of big_data_deployer/hadoop.py: HadoopFramework.deploy, the    *)
(* orchestration of one Hadoop deployment (topology and settings          *)
(* validation, template rendering, remote reset, staged start-up).        *)
(*                                                                         *)
(* Strings are TLA+ strings; Len, \o and SubSeq act on their characters.   *)
(* A Python value of the settings map is a record [t, n, s, b] tagged by   *)
(* its type t ("int", "str", "bool", "none").                              *)
(***************************************************************************)
EXTENDS Integers, Sequences, FiniteSets, TLC

VARIABLES
    machines,         \* deploy's argument: the ordered host list
    settings,         \* deploy's argument: the caller's mutable settings map
    settings0,        \* the settings map as the caller supplied it (history)
    templates,        \* the template directory: file name -> sequence of raw lines
    chunks,           \* the pieces the template line under study was written from
    ioOk,             \* whether the configuration directory can be written
    environ,          \* os.environ: the environment variables of the process
    unreadable,       \* the template files that cannot be opened for reading
    registry,         \* the framework registry: identifier -> versions, in insertion order
    regCall,          \* the last call made on the registry and the error it raised, if any
    other,            \* a second call of deploy that shares the install root and the hosts
    pc,               \* position of the run inside deploy
    i,                \* index of the loop that is running (templates, workers)
    yarn_mb,          \* local variable of deploy
    java_home,        \* local variable of deploy
    log_aggregation,  \* local variable of deploy
    substitutions,    \* local variable of deploy: placeholder -> replacement value
    globbed,          \* local of deploy: the list glob.glob returned
    files,            \* the configuration directory: file name -> content
    cmds,             \* remote commands of this run, in order, each with its outcome
    fs,               \* the scratch directory of every host
    log,              \* calls of log_fn made by this run, in order
    err,              \* the exception deploy raised, if any
    run               \* number of the deploy call (1 = first)

vars == <<machines, settings, settings0, templates, chunks, ioOk, environ, unreadable, registry,
          regCall, other, pc, i, yarn_mb, java_home, log_aggregation, substitutions, globbed,
          files, cmds, fs, log, err, run>>

----------------------------------------------------------------------------
(* Bounds of the model *)

MaxMachines == 3
MaxRuns == 2
MaxChunks == 4

----------------------------------------------------------------------------
(* Module constants, hadoop.py:10-20 *)

SETTING_JAVA_HOME == "java_home"
SETTING_YARN_MB == "yarn_memory_mb"
SETTING_LOG_AGGREGATION == "log_aggregation"

ALL_SETTINGS ==
    << <<SETTING_JAVA_HOME, "value of JAVA_HOME to deploy Hadoop with">>,
       <<SETTING_YARN_MB, "memory available per node to YARN in MB">>,
       <<SETTING_LOG_AGGREGATION, "enable YARN log aggregation">> >>

DEFAULT_YARN_MB == 4096

----------------------------------------------------------------------------
(* Python values and the conversions deploy applies to them *)

IntVal(n) == [t |-> "int", n |-> n, s |-> "", b |-> FALSE]
StrVal(s) == [t |-> "str", n |-> 0, s |-> s, b |-> FALSE]
BoolVal(b) == [t |-> "bool", n |-> 0, s |-> "", b |-> b]
NoVal == [t |-> "none", n |-> 0, s |-> "", b |-> FALSE]

DEFAULT_LOG_AGGREGATION == BoolVal(FALSE)

Digit(d) == SubSeq("0123456789", d + 1, d + 1)

RECURSIVE ToStr(_)
ToStr(n) == IF n < 10 THEN Digit(n) ELSE ToStr(n \div 10) \o Digit(n % 10)

\* str(v)
PyStr(v) ==
    CASE v.t = "int" -> ToStr(v.n)
      [] v.t = "str" -> v.s
      [] v.t = "bool" -> (IF v.b THEN "True" ELSE "False")
      [] OTHER -> "None"

TruthyNotNone(v) == v.t # "none"

\* the truth value of v in "if v:"
Truthy(v) ==
    CASE v.t = "int" -> v.n # 0
      [] v.t = "str" -> v.s # ""
      [] v.t = "bool" -> v.b
      [] OTHER -> FALSE

Upper == "ABCDEFGHIJKLMNOPQRSTUVWXYZ"
Lowercase == "abcdefghijklmnopqrstuvwxyz"

LowerChar(c) ==
    LET hit == {j \in 1..Len(Upper) : SubSeq(Upper, j, j) = c}
    IN IF hit = {} THEN c ELSE LET j == CHOOSE j \in hit : TRUE IN SubSeq(Lowercase, j, j)

LowerNone(s) == s

\* s.lower()
RECURSIVE Lower(_)
Lower(s) == IF s = "" THEN "" ELSE LowerChar(SubSeq(s, 1, 1)) \o Lower(SubSeq(s, 2, Len(s)))

PopNothing(map, key) == map

\* the map left by settings.pop(key, ...)
Pop(map, key) == [k \in (DOMAIN map) \ {key} |-> map[k]]

PopValueNone(map, key, default) == IF key \in DOMAIN map THEN map[key] ELSE NoVal

\* the value returned by settings.pop(key, default)
PopValue(map, key, default) == IF key \in DOMAIN map THEN map[key] ELSE default

EmptyMap == [k \in {} |-> ""]

----------------------------------------------------------------------------
(* Inputs *)

Hosts == {"m0", "w0", "w1"}

MachineLists == UNION {[1..n -> Hosts] : n \in 0..MaxMachines}

SettingValues(k) ==
    CASE k = SETTING_JAVA_HOME -> {StrVal(""), StrVal("/usr/lib/jvm/x"), IntVal(5)}
      [] k = SETTING_YARN_MB -> {IntVal(2048)}
      [] k = SETTING_LOG_AGGREGATION -> {StrVal("True"), StrVal("banana")}
      [] OTHER -> {StrVal("1")}

SettingKeys == {SETTING_JAVA_HOME, SETTING_YARN_MB, SETTING_LOG_AGGREGATION, "bogus", "extra"}

SettingsMaps ==
    UNION {{m \in [D -> UNION {SettingValues(k) : k \in D}] :
                \A k \in D : m[k] \in SettingValues(k)} : D \in SUBSET SettingKeys}

----------------------------------------------------------------------------
(* Template rendering, hadoop.py:56-82 *)

\* the value of the environment variable USER, when it is set
USER == "alice"
HADOOP_HOME == "/opt/hadoop"

Environs == {EmptyMap, [v \in {"USER"} |-> USER]}

\* the vertical tab (character 11), which has no escape: the string holds it as it is
VerticalTab == ""

\* The characters str.rstrip() removes from a Python 2 string (the interpreter
\* line 1 names): space, tab, newline, carriage return, vertical tab, form feed.
Whitespace == {" ", "\t", "\n", "\r", VerticalTab, "\f"}

\* line.rstrip()
RECURSIVE RStrip(_)
RStrip(s) ==
    IF s # "" /\ SubSeq(s, Len(s), Len(s)) \in Whitespace
    THEN RStrip(SubSeq(s, 1, Len(s) - 1))
    ELSE s

\* substitutions.keys(), the alternatives of the pattern of line 66. The order
\* in which the pattern lists them is the dict's and is not fixed by the code;
\* no key is a prefix of another, so at most one alternative matches at a
\* position and the order has no effect on a match.
SubstitutionKeys(subst) == DOMAIN subst

\* whether key occurs in s at position p (1-based)
MatchAt(s, p, key) ==
    /\ p + Len(key) - 1 <= Len(s)
    /\ SubSeq(s, p, p + Len(key) - 1) = key

\* the keys the pattern can match at position p of s
KeysAt(subst, s, p) == {key \in SubstitutionKeys(subst) : MatchAt(s, p, key)}

\* substitutions_pattern.sub(lambda m: substitutions[m.group(0)], s) from position p on:
\* the leftmost match is replaced and scanning resumes after the matched text
RECURSIVE SubFrom(_, _, _)
SubFrom(subst, s, p) ==
    IF p > Len(s) THEN ""
    ELSE LET hits == KeysAt(subst, s, p)
         IN IF hits = {}
            THEN SubSeq(s, p, p) \o SubFrom(subst, s, p + 1)
            ELSE LET key == CHOOSE key \in hits : TRUE
                 IN subst[key].s \o SubFrom(subst, s, p + Len(key))

\* whether that call raises TypeError: the replacement of some match is no string
RECURSIVE RaisesFrom(_, _, _)
RaisesFrom(subst, s, p) ==
    IF p > Len(s) THEN FALSE
    ELSE LET hits == KeysAt(subst, s, p)
         IN IF hits = {}
            THEN RaisesFrom(subst, s, p + 1)
            ELSE LET key == CHOOSE key \in hits : TRUE
                 IN subst[key].t # "str" \/ RaisesFrom(subst, s, p + Len(key))

\* s.replace(key, value)
RECURSIVE ReplaceAll(_, _, _)
ReplaceAll(s, key, value) ==
    IF s = "" THEN ""
    ELSE IF MatchAt(s, 1, key)
         THEN value \o ReplaceAll(SubSeq(s, Len(key) + 1, Len(s)), key, value)
         ELSE SubSeq(s, 1, 1) \o ReplaceAll(SubSeq(s, 2, Len(s)), key, value)

RECURSIVE ReplaceEach(_, _, _)
ReplaceEach(subst, keys, s) ==
    IF keys = <<>> THEN s
    ELSE ReplaceEach(subst, Tail(keys), ReplaceAll(s, Head(keys), subst[Head(keys)].s))

\* rendering by one str.replace per key, each pass scanning the previous one's output
RenderLineKeyByKey(subst, line) ==
    LET all == <<"__USER__", "__MASTER__", "__YARN_MB__", "__LOG_AGGREGATION__", "${JAVA_HOME}">>
    IN ReplaceEach(subst, SelectSeq(all, LAMBDA k : k \in DOMAIN subst), RStrip(line)) \o "\n"

\* whether rendering the template line raises TypeError (hadoop.py:74)
RenderLineRaises(subst, line) == RaisesFrom(subst, RStrip(line), 1)

\* the text print() writes for one template line that renders (hadoop.py:74)
RenderLine(subst, line) == SubFrom(subst, RStrip(line), 1) \o "\n"

\* whether the loop of lines 73-74 raises TypeError on some line
RenderFileRaises(subst, lines) ==
    \E k \in 1..Len(lines) : RenderLineRaises(subst, lines[k])

\* the text printed to the output file by the loop of lines 73-74: every
\* line, or the lines before the first one that raises
RECURSIVE RenderFile(_, _)
RenderFile(subst, lines) ==
    IF lines = <<>> \/ RenderLineRaises(subst, Head(lines)) THEN ""
    ELSE RenderLine(subst, Head(lines)) \o RenderFile(subst, Tail(lines))

\* the substitutions dict of hadoop.py:58-65; java_home is stored as it is
Substitutions(master, ymb, la, jh) ==
    LET base == [k \in {"__USER__", "__MASTER__", "__YARN_MB__", "__LOG_AGGREGATION__"} |->
                    CASE k = "__USER__" -> StrVal(USER)
                      [] k = "__MASTER__" -> StrVal(master)
                      [] k = "__YARN_MB__" -> StrVal(PyStr(ymb))
                      [] OTHER -> StrVal(IF la THEN "true" ELSE "false")]
    IN IF Truthy(jh)
       THEN [k \in DOMAIN base \cup {"${JAVA_HOME}"} |->
                IF k = "${JAVA_HOME}" THEN jh ELSE base[k]]
       ELSE base

TemplateSuffix == ".template"

\* whether the pattern "*.template" matches the name: "*" matches no leading dot
IsTemplate(name) ==
    /\ Len(name) >= Len(TemplateSuffix)
    /\ SubSeq(name, Len(name) - Len(TemplateSuffix) + 1, Len(name)) = TemplateSuffix
    /\ SubSeq(name, 1, 1) # "."

\* glob.glob(os.path.join(template_dir, "*.template")): the matching names
Glob(dir) == {name \in DOMAIN dir : IsTemplate(name)}

\* the orders in which glob may list them
GlobOrders(dir) ==
    LET names == Glob(dir)
    IN {o \in [1..Cardinality(names) -> names] : \A a, b \in DOMAIN o : a # b => o[a] # o[b]}

\* os.path.basename(template_file)[:-len(".template")]
OutputName(name) == SubSeq(name, 1, Len(name) - Len(TemplateSuffix))

RECURSIVE JoinLines(_)
JoinLines(hosts) == IF hosts = <<>> THEN "" ELSE Head(hosts) \o "\n" \o JoinLines(Tail(hosts))

\* open(path, "w"): the file is created, or emptied when it exists
Truncated(dir, f) == [g \in DOMAIN dir \cup {f} |-> IF g = f THEN "" ELSE dir[g]]

\* the content of a file holding old after text is written at its start
Overlay(old, text) == text \o SubSeq(old, Len(text) + 1, Len(old))

\* leaving the "with" block of an open file: the buffered text is written,
\* from position 0, over whatever the file holds by then
Written(dir, f, text) == [dir EXCEPT ![f] = Overlay(@, text)]

masterLast == machines[Len(machines)]
workersWithMaster == machines

master == machines[1]
workers == Tail(machines)

Msg(level, text) == <<level, text>>

GeneratingMsg(name) == Msg(2, "Generating file \"" \o name \o "\"...")

----------------------------------------------------------------------------
(* Remote commands, hadoop.py:84-108 *)

local_hadoop_dir == "/local/" \o USER \o "/hadoop/"

PurgeCmd == "rm -rf \"" \o local_hadoop_dir \o "\""
MkdirMasterCmd == "mkdir -p \"" \o local_hadoop_dir \o "\""
MkdirWorkerCmd ==
    "mkdir -p \"" \o local_hadoop_dir \o "/tmp\" \"" \o local_hadoop_dir \o "/datanode\""
FormatCmd == "\"" \o HADOOP_HOME \o "/bin/hadoop\" namenode -format"
StartDfsCmd == "\"" \o HADOOP_HOME \o "/sbin/start-dfs.sh\""
StartYarnCmd == "\"" \o HADOOP_HOME \o "/sbin/start-yarn.sh\""

ServiceCmds == {FormatCmd, StartDfsCmd, StartYarnCmd}

\* The scratch directory of a host: whether it exists and the names in it.
Absent == [exists |-> FALSE, entries |-> {}]
Dir(entries) == [exists |-> TRUE, entries |-> entries]

\* What a command that succeeds may leave of the scratch directory d. The service
\* commands are opaque; they may put data into an existing directory.
CommandEffects(cmd, d) ==
    CASE cmd = PurgeCmd -> {Absent}
      [] cmd = MkdirMasterCmd -> {IF d.exists THEN d ELSE Dir({})}
      [] cmd = MkdirWorkerCmd -> {Dir(d.entries \cup {"tmp", "datanode"})}
      [] OTHER -> {d} \cup (IF d.exists THEN {Dir(d.entries \cup {"data"})} ELSE {})

\* util.execute_command_quietly(["ssh", host, cmd]): the command runs on host and
\* either succeeds, or fails (non-zero status, no connection) and raises.
execute_command_quietly(host, cmd, remote) ==
    {[ok |-> TRUE, fs |-> [remote EXCEPT ![host] = d]] : d \in CommandEffects(cmd, remote[host])}
        \cup {[ok |-> FALSE, fs |-> remote]}

NoError == [kind |-> "none", keys |-> {}, host |-> "", cmd |-> ""]
InvalidTopology == [kind |-> "InvalidSetupError", keys |-> {}, host |-> "", cmd |-> "topology"]
UnknownSettings(keys) == [kind |-> "InvalidSetupError", keys |-> keys, host |-> "", cmd |-> "settings"]
KeyError(key) == [kind |-> "KeyError", keys |-> {key}, host |-> "", cmd |-> ""]
IOError == [kind |-> "IOError", keys |-> {}, host |-> "", cmd |-> ""]
TypeError == [kind |-> "TypeError", keys |-> {}, host |-> "", cmd |-> ""]
RemoteCommandError(host, cmd) == [kind |-> "RemoteCommandError", keys |-> {}, host |-> host, cmd |-> cmd]

----------------------------------------------------------------------------
(* Module initialization, hadoop.py:115-116 *)

HadoopId == "hadoop"
HadoopVersion == "2.6.0"
HadoopTemplateDir == "2.6.x"

HadoopName == "Hadoop"

\* Framework(identifier, name): a framework with no version yet
Framework(name) == [name |-> name, versions |-> <<>>]

\* HadoopFrameworkVersion(version, ..., template_dir)
FrameworkVersion(version, template_dir) == [version |-> version, template_dir |-> template_dir]

VersionStrings(fw) == {fw.versions[k].version : k \in 1..Len(fw.versions)}

\* registry.register_framework(framework): the registry afterwards and the error raised
register_framework(reg, id, name) ==
    IF id \in DOMAIN reg
    THEN [registry |-> reg, err |-> "DuplicateFrameworkError"]
    ELSE [registry |-> [k \in DOMAIN reg \cup {id} |-> IF k = id THEN Framework(name) ELSE reg[k]],
          err |-> "none"]

\* registry.framework(id).add_version(v): the registry afterwards and the error raised
add_version(reg, id, v) ==
    IF id \notin DOMAIN reg
    THEN [registry |-> reg, err |-> "UnknownFrameworkError"]
    ELSE IF v.version \in VersionStrings(reg[id])
    THEN [registry |-> reg, err |-> "DuplicateVersionError"]
    ELSE [registry |-> [reg EXCEPT ![id].versions = Append(@, v)], err |-> "none"]

NoCall == [op |-> "none", id |-> "", version |-> "", err |-> "none"]
Call(op, id, version, raised) == [op |-> op, id |-> id, version |-> version, err |-> raised]

\* the registry once the module is loaded
InitializedRegistry ==
    add_version(register_framework(EmptyMap, HadoopId, HadoopName).registry,
                HadoopId, FrameworkVersion(HadoopVersion, HadoopTemplateDir)).registry

\* What a second call of deploy has not seen yet of this call's writes to a host
\* list file: whether this call had opened and closed the file when the second
\* call opened it, and whether it had opened it when the second call closed it.
NothingSeen ==
    [f \in {"masters", "slaves"} |->
        [openedAtOpen |-> FALSE, closedAtOpen |-> FALSE, openedAtClose |-> FALSE]]

\* no second call of deploy
NoOther == [machines |-> <<>>, pc |-> "none", k |-> 0, order |-> <<>>, seen |-> NothingSeen]

----------------------------------------------------------------------------
(* The state before deploy is called *)

\* The template directory: empty, or with one template, a hidden file whose
\* name ends like a template's, and a file that is no template.
TemplateDirs ==
    { EmptyMap,
      [n \in {"yarn-site.xml.template", ".hidden.template", "README"} |->
          IF n = "yarn-site.xml.template"
          THEN <<"master=__MASTER__ mb=__YARN_MB__ \f" \o VerticalTab \o " \n",
                 "java=${JAVA_HOME} agg=__LOG_AGGREGATION__ __OTHER__\n">>
          ELSE <<"__MASTER__\n">>] }

Fresh(ms, st, td, io, remote) ==
    /\ machines = ms
    /\ chunks = <<>>
    /\ registry = InitializedRegistry
    /\ regCall = NoCall
    /\ settings = st
    /\ settings0 = st
    /\ templates = td
    /\ ioOk = io
    /\ pc = "start"
    /\ i = 1
    /\ yarn_mb = NoVal
    /\ java_home = NoVal
    /\ log_aggregation = FALSE
    /\ substitutions = EmptyMap
    /\ globbed = <<>>
    /\ files = EmptyMap
    /\ cmds = <<>>
    /\ fs = remote
    /\ log = <<>>
    /\ err = NoError
    /\ run = 1

Init ==
    \E ms \in MachineLists, st \in SettingsMaps, td \in TemplateDirs, io \in BOOLEAN :
        /\ Fresh(ms, st, td, io, [h \in Hosts |-> Absent])
        /\ environ \in Environs
        /\ unreadable \in SUBSET Glob(td)
        /\ other = NoOther

\* Prior states of a host's scratch directory: absent, empty, or with content.
InitDirStates == {Absent, Dir({}), Dir({"stale"}), Dir({"tmp", "datanode", "stale"})}

\* Any topology on hosts in any prior state, with settings that pass validation.
InitReset ==
    \E ms \in MachineLists, td \in TemplateDirs, remote \in [Hosts -> InitDirStates] :
        /\ Fresh(ms, [k \in {SETTING_JAVA_HOME} |-> StrVal("/usr/lib/jvm/x")], td, TRUE, remote)
        /\ environ = [v \in {"USER"} |-> USER]
        /\ unreadable = {}
        /\ other = NoOther

\* Pieces of template text: placeholders, a token that is no placeholder, plain
\* text, blanks, and the tail of a placeholder.
Chunks == {"__MASTER__", "__YARN_MB__", "__OTHER__", "master=", " mb=", " ", "MASTER__"}

ChunkSeqs == UNION {[1..n -> Chunks] : n \in 0..MaxChunks}

RECURSIVE Flatten(_)
Flatten(cs) == IF cs = <<>> THEN "" ELSE Head(cs) \o Flatten(Tail(cs))

StudyTemplate == "site.xml.template"

\* One template of one line, any line made of at most MaxChunks pieces; a master
\* whose name is or is not itself a placeholder.
InitRender ==
    \E cs \in ChunkSeqs,
       ms \in {<<"node0", "w0">>, <<"__YARN_MB__", "w0">>},
       jh \in {"/usr/lib/jvm/x"} :
        /\ machines = ms
        /\ chunks = cs
        /\ settings = [k \in {SETTING_JAVA_HOME, SETTING_YARN_MB} |->
                          IF k = SETTING_JAVA_HOME THEN StrVal(jh) ELSE IntVal(8192)]
        /\ settings0 = settings
        /\ templates = [n \in {StudyTemplate} |-> <<Flatten(cs) \o "\n">>]
        /\ ioOk = TRUE
        /\ environ = [v \in {"USER"} |-> USER]
        /\ unreadable = {}
        /\ registry = InitializedRegistry
        /\ regCall = NoCall
        /\ other = NoOther
        /\ pc = "start"
        /\ i = 1
        /\ yarn_mb = NoVal
        /\ java_home = NoVal
        /\ log_aggregation = FALSE
        /\ substitutions = EmptyMap
        /\ globbed = <<>>
        /\ files = EmptyMap
        /\ cmds = <<>>
        /\ fs = [h \in Hosts |-> Absent]
        /\ log = <<>>
        /\ err = NoError
        /\ run = 1

----------------------------------------------------------------------------
(* HadoopFramework.deploy, step by step *)

Inputs == <<machines, settings0, templates, chunks, ioOk, environ, unreadable, registry, regCall,
            other, run>>
Locals == <<yarn_mb, java_home, log_aggregation, substitutions, globbed>>

\* if len(machines) < 1: the topology check with its bound off by one
TooFewMachinesOffByOne(ms) == Len(ms) < 1

\* hadoop.py:37
TooFewMachines(ms) == Len(ms) < 2

\* if len(settings) > 1: the leftover check with its bound off by one
HasLeftoverOffByOne(st) == Cardinality(DOMAIN st) > 1

\* hadoop.py:52
HasLeftover(st) == Cardinality(DOMAIN st) > 0

\* hadoop.py:37-42
ValidateTopology ==
    /\ pc = "start"
    /\ IF TooFewMachines(machines)
       THEN /\ pc' = "failed"
            /\ err' = InvalidTopology
            /\ log' = log
       ELSE /\ pc' = "extract"
            /\ err' = err
            /\ log' = Append(log, Msg(0, "Selected Hadoop master \"" \o master \o "\", with "
                                            \o ToStr(Len(workers)) \o " workers."))
    /\ UNCHANGED <<Inputs, Locals, settings, i, files, cmds, fs>>

\* hadoop.py:47-53
ExtractSettings ==
    /\ pc = "extract"
    /\ LET ymb == PopValue(settings, SETTING_YARN_MB, IntVal(DEFAULT_YARN_MB))
           s1 == Pop(settings, SETTING_YARN_MB)
       IN IF SETTING_JAVA_HOME \notin DOMAIN s1
          THEN /\ settings' = s1
               /\ pc' = "failed"
               /\ err' = KeyError(SETTING_JAVA_HOME)
               /\ yarn_mb' = ymb
               /\ UNCHANGED <<java_home, log_aggregation>>
          ELSE LET jh == s1[SETTING_JAVA_HOME]
                   s2 == Pop(s1, SETTING_JAVA_HOME)
                   log_aggregation_str ==
                       Lower(PyStr(PopValue(s2, SETTING_LOG_AGGREGATION, DEFAULT_LOG_AGGREGATION)))
                   s3 == Pop(s2, SETTING_LOG_AGGREGATION)
               IN /\ settings' = s3
                  /\ yarn_mb' = ymb
                  /\ java_home' = jh
                  /\ log_aggregation' = (log_aggregation_str \in {"true", "t", "yes", "y", "1"})
                  /\ IF HasLeftover(s3)
                     THEN pc' = "failed" /\ err' = UnknownSettings(DOMAIN s3)
                     ELSE pc' = "render" /\ err' = err
    /\ UNCHANGED <<Inputs, substitutions, globbed, i, files, cmds, fs, log>>

\* what the steps that generate the configuration files leave alone
RenderFrame == <<Inputs, settings, yarn_mb, java_home, log_aggregation, cmds, fs>>

\* hadoop.py:55-66: the substitutions table; os.environ["USER"] raises KeyError
\* when the variable is not set
BuildSubstitutions ==
    /\ pc = "render"
    /\ IF "USER" \notin DOMAIN environ
       THEN /\ pc' = "failed"
            /\ err' = KeyError("USER")
            /\ substitutions' = substitutions
       ELSE /\ pc' = "glob"
            /\ err' = err
            /\ substitutions' = Substitutions(master, yarn_mb, log_aggregation, java_home)
    /\ UNCHANGED <<RenderFrame, globbed, i, files, log>>

\* hadoop.py:68-69: the first message, then glob.glob lists the templates
ListTemplates ==
    /\ pc = "glob"
    /\ \E order \in GlobOrders(templates) :
        /\ globbed' = order
        /\ pc' = IF order = <<>> THEN "masters" ELSE "templates"
    /\ i' = 1
    /\ log' = Append(log, Msg(1, "Generating configuration files..."))
    /\ UNCHANGED <<RenderFrame, substitutions, files, err>>

\* opening a template that goes on to its body although an open() raised
OpenTemplateUnchecked ==
    /\ pc = "templates"
    /\ log' = Append(log, GeneratingMsg(OutputName(globbed[i])))
    /\ files' = IF ~ioOk \/ globbed[i] \in unreadable
                THEN files
                ELSE Truncated(files, OutputName(globbed[i]))
    /\ IF ~ioOk \/ globbed[i] \in unreadable
       THEN pc' = (IF i = Len(globbed) THEN "masters" ELSE "templates")
            /\ i' = (IF i = Len(globbed) THEN 1 ELSE i + 1)
       ELSE pc' = "template_body" /\ i' = i
    /\ err' = err
    /\ UNCHANGED <<RenderFrame, substitutions, globbed>>

\* hadoop.py:70-72, one iteration: the message, then the template is opened for
\* reading and the output file for writing; an open() that raises ends deploy
OpenTemplate ==
    /\ pc = "templates"
    /\ log' = Append(log, GeneratingMsg(OutputName(globbed[i])))
    /\ IF ~ioOk \/ globbed[i] \in unreadable
       THEN /\ files' = files
            /\ pc' = "failed"
            /\ err' = IOError
       ELSE /\ files' = Truncated(files, OutputName(globbed[i]))
            /\ pc' = "template_body"
            /\ err' = err
    /\ UNCHANGED <<RenderFrame, substitutions, globbed, i>>

\* hadoop.py:73-74 and the end of the "with" block: the lines are rendered and
\* the text is written when the file is closed; a line that raises ends deploy,
\* the file closed with the lines before it
WriteTemplate ==
    /\ pc = "template_body"
    /\ files' = Written(files, OutputName(globbed[i]),
                        RenderFile(substitutions, templates[globbed[i]]))
    /\ IF RenderFileRaises(substitutions, templates[globbed[i]])
       THEN /\ pc' = "failed"
            /\ err' = TypeError
            /\ i' = i
       ELSE /\ pc' = (IF i = Len(globbed) THEN "masters" ELSE "templates")
            /\ err' = err
            /\ i' = (IF i = Len(globbed) THEN 1 ELSE i + 1)
    /\ UNCHANGED <<RenderFrame, substitutions, globbed, log>>

\* hadoop.py:75-76: the message, then the masters file is opened for writing
OpenMasters ==
    /\ pc = "masters"
    /\ log' = Append(log, GeneratingMsg("masters"))
    /\ IF ~ioOk
       THEN /\ files' = files
            /\ pc' = "failed"
            /\ err' = IOError
       ELSE /\ files' = Truncated(files, "masters")
            /\ pc' = "masters_body"
            /\ err' = err
    /\ UNCHANGED <<RenderFrame, substitutions, globbed, i>>

\* hadoop.py:77 and the end of the "with" block
WriteMasters ==
    /\ pc = "masters_body"
    /\ files' = Written(files, "masters", master \o "\n")
    /\ pc' = "slaves"
    /\ UNCHANGED <<RenderFrame, substitutions, globbed, i, log, err>>

\* hadoop.py:78-79: the message, then the slaves file is opened for writing
OpenSlaves ==
    /\ pc = "slaves"
    /\ log' = Append(log, GeneratingMsg("slaves"))
    /\ IF ~ioOk
       THEN /\ files' = files
            /\ pc' = "failed"
            /\ err' = IOError
       ELSE /\ files' = Truncated(files, "slaves")
            /\ pc' = "slaves_body"
            /\ err' = err
    /\ UNCHANGED <<RenderFrame, substitutions, globbed, i>>

\* hadoop.py:80-81 and the end of the "with" block
WriteSlaves ==
    /\ pc = "slaves_body"
    /\ files' = Written(files, "slaves", JoinLines(workers))
    /\ pc' = "purge_master"
    /\ UNCHANGED <<RenderFrame, substitutions, globbed, i, log, err>>

\* RemoteStep with the exception of the call swallowed: the run carries on
RemoteStepSwallowed(host, cmd, before, next, nexti, after) ==
    \E out \in execute_command_quietly(host, cmd, fs) :
        /\ cmds' = Append(cmds, [host |-> host, cmd |-> cmd, ok |-> out.ok])
        /\ fs' = out.fs
        /\ pc' = next
        /\ i' = nexti
        /\ log' = log \o before \o after
        /\ err' = err
        /\ UNCHANGED <<Inputs, Locals, settings, files>>

\* One call util.execute_command_quietly(["ssh", host, cmd]) of deploy, with the
\* log_fn calls that precede it (before) and, when nothing else follows, that end
\* the run (after). An exception of the call is not caught: it ends deploy.
RemoteStep(host, cmd, before, next, nexti, after) ==
    \E out \in execute_command_quietly(host, cmd, fs) :
        /\ cmds' = Append(cmds, [host |-> host, cmd |-> cmd, ok |-> out.ok])
        /\ fs' = out.fs
        /\ IF out.ok
           THEN /\ pc' = next
                /\ i' = nexti
                /\ log' = log \o before \o after
                /\ err' = err
           ELSE /\ pc' = "failed"
                /\ i' = i
                /\ log' = log \o before
                /\ err' = RemoteCommandError(host, cmd)
        /\ UNCHANGED <<Inputs, Locals, settings, files>>

\* hadoop.py:82-88
PurgeMaster ==
    /\ pc = "purge_master"
    /\ RemoteStep(master, PurgeCmd,
                  << Msg(2, "Configuration files generated."),
                     Msg(1, "Creating a clean environment on the master and workers..."),
                     Msg(2, "Purging \"" \o local_hadoop_dir \o "\" on master...") >>,
                  "purge_workers", 1, <<>>)

\* the purge loop running over the workers in reverse
PurgeWorkerReversed ==
    /\ pc = "purge_workers"
    /\ RemoteStep(workers[Len(workers) + 1 - i], PurgeCmd,
                  IF i = 1 THEN <<Msg(2, "Purging \"" \o local_hadoop_dir \o "\" on workers...")>>
                           ELSE <<>>,
                  IF i = Len(workers) THEN "create_master" ELSE "purge_workers",
                  IF i = Len(workers) THEN 1 ELSE i + 1, <<>>)

\* the purge loop leaving after its first iteration
PurgeWorkerFirstOnly ==
    /\ pc = "purge_workers"
    /\ RemoteStep(workers[i], PurgeCmd,
                  <<Msg(2, "Purging \"" \o local_hadoop_dir \o "\" on workers...")>>,
                  "create_master", 1, <<>>)

\* hadoop.py:89-91, one iteration of the loop
PurgeWorker ==
    /\ pc = "purge_workers"
    /\ RemoteStep(workers[i], PurgeCmd,
                  IF i = 1 THEN <<Msg(2, "Purging \"" \o local_hadoop_dir \o "\" on workers...")>>
                           ELSE <<>>,
                  IF i = Len(workers) THEN "create_master" ELSE "purge_workers",
                  IF i = Len(workers) THEN 1 ELSE i + 1, <<>>)

\* hadoop.py:92-93
CreateMaster ==
    /\ pc = "create_master"
    /\ RemoteStep(master, MkdirMasterCmd,
                  <<Msg(2, "Creating directory structure on master...")>>,
                  "create_workers", 1, <<>>)

\* the create loop issuing the command of the purge loop
CreateWorkerPurging ==
    /\ pc = "create_workers"
    /\ RemoteStep(workers[i], PurgeCmd,
                  IF i = 1 THEN <<Msg(2, "Creating directory structure on workers...")>>
                           ELSE <<>>,
                  IF i = Len(workers) THEN "format" ELSE "create_workers",
                  IF i = Len(workers) THEN 1 ELSE i + 1, <<>>)

\* the create loop leaving after its first iteration
CreateWorkerFirstOnly ==
    /\ pc = "create_workers"
    /\ RemoteStep(workers[i], MkdirWorkerCmd,
                  <<Msg(2, "Creating directory structure on workers...")>>,
                  "format", 1, <<>>)

\* hadoop.py:94-96, one iteration of the loop
CreateWorker ==
    /\ pc = "create_workers"
    /\ RemoteStep(workers[i], MkdirWorkerCmd,
                  IF i = 1 THEN <<Msg(2, "Creating directory structure on workers...")>>
                           ELSE <<>>,
                  IF i = Len(workers) THEN "format" ELSE "create_workers",
                  IF i = Len(workers) THEN 1 ELSE i + 1, <<>>)

\* hadoop.py:97-102
FormatNamenode ==
    /\ pc = "format"
    /\ RemoteStep(master, FormatCmd,
                  << Msg(2, "Clean environment set up."),
                     Msg(1, "Deploying HDFS..."),
                     Msg(2, "Formatting namenode...") >>,
                  "start_dfs", 1, <<>>)

\* hadoop.py:103-104
StartHDFS ==
    /\ pc = "start_dfs"
    /\ RemoteStep(master, StartDfsCmd, <<Msg(2, "Starting HDFS...")>>, "start_yarn", 1, <<>>)

\* the success message logged before start-yarn is run
StartYARNSuccessFirst ==
    /\ pc = "start_yarn"
    /\ RemoteStep(master, StartYarnCmd,
                  <<Msg(1, "Deploying YARN..."), Msg(1, "Hadoop cluster deployed.")>>,
                  "done", 1, <<>>)

\* start-yarn addressed to the last machine of the list instead of the first
StartYARNOnLast ==
    /\ pc = "start_yarn"
    /\ RemoteStep(machines[Len(machines)], StartYarnCmd, <<Msg(1, "Deploying YARN...")>>, "done", 1,
                  <<Msg(1, "Hadoop cluster deployed.")>>)

\* hadoop.py:106-110
StartYARN ==
    /\ pc = "start_yarn"
    /\ RemoteStep(master, StartYarnCmd, <<Msg(1, "Deploying YARN...")>>, "done", 1,
                  <<Msg(1, "Hadoop cluster deployed.")>>)

\* The caller calls deploy again with the same arguments (a fresh copy of the
\* settings map) once the previous call has returned or raised. The remote hosts
\* and the configuration directory are as the previous call left them.
Redeploy ==
    /\ pc \in {"done", "failed"}
    /\ run < MaxRuns
    /\ run' = run + 1
    /\ settings' = settings0
    /\ pc' = "start"
    /\ i' = 1
    /\ yarn_mb' = NoVal
    /\ java_home' = NoVal
    /\ log_aggregation' = FALSE
    /\ substitutions' = EmptyMap
    /\ globbed' = <<>>
    /\ cmds' = <<>>
    /\ log' = <<>>
    /\ err' = NoError
    /\ UNCHANGED <<machines, settings0, templates, chunks, ioOk, environ, unreadable, registry,
                   regCall, other, files, fs>>

Next ==
    \/ ValidateTopology
    \/ ExtractSettings
    \/ BuildSubstitutions
    \/ ListTemplates
    \/ OpenTemplate
    \/ WriteTemplate
    \/ OpenMasters
    \/ WriteMasters
    \/ OpenSlaves
    \/ WriteSlaves
    \/ PurgeMaster
    \/ PurgeWorker
    \/ CreateMaster
    \/ CreateWorker
    \/ FormatNamenode
    \/ StartHDFS
    \/ StartYARN
    \/ Redeploy

Spec == Init /\ [][Next]_vars

\* Values a caller may give for log_aggregation: spellings of the true-list in
\* several cases, near misses, other literals, and values that are no strings.
LogAggregationInputs ==
    {StrVal(s) : s \in {"true", "True", "TRUE", "tRuE", "t", "T", "yes", "YES", "Yes", "y", "Y",
                        "1", "false", "False", "0", "", "banana", "no", "on", "tru", "11",
                        " true", "yes ", "ye", "TY"}}
        \cup {BoolVal(TRUE), BoolVal(FALSE), IntVal(1), IntVal(0), IntVal(10), NoVal}

\* A valid two-machine topology with java_home set, and log_aggregation absent
\* or holding any of the values above.
InitSettings ==
    \E las \in {EmptyMap} \cup {[k \in {SETTING_LOG_AGGREGATION} |-> v] : v \in LogAggregationInputs},
       ymbs \in {EmptyMap, [k \in {SETTING_YARN_MB} |-> IntVal(2048)]},
       td \in TemplateDirs :
        /\ Fresh(<<"m0", "w0">>,
                 [k \in {SETTING_JAVA_HOME} \cup DOMAIN las \cup DOMAIN ymbs |->
                     IF k = SETTING_JAVA_HOME THEN StrVal("/usr/lib/jvm/x")
                     ELSE IF k = SETTING_YARN_MB THEN ymbs[k] ELSE las[k]],
                 td, TRUE, [h \in Hosts |-> Absent])
        /\ environ = [v \in {"USER"} |-> USER]
        /\ unreadable = {}
        /\ other = NoOther

\* deploy up to the end of the template loop (hadoop.py:35-74), on every template
\* line of the bound; the steps that follow the loop are those of Next
NextRender ==
    \/ ValidateTopology
    \/ ExtractSettings
    \/ BuildSubstitutions
    \/ ListTemplates
    \/ OpenTemplate
    \/ WriteTemplate

SpecRender == InitRender /\ [][NextRender]_vars

\* the configuration files are all generated (no local error stopped deploy)
RenderCompleted ==
    \/ pc \in {"purge_master", "purge_workers", "create_master", "create_workers",
               "format", "start_dfs", "start_yarn", "done"}
    \/ pc = "failed" /\ err.kind = "RemoteCommandError"

----------------------------------------------------------------------------
(* A second call of deploy, by another process, on the same install root *)

\* the remote commands of deploy for a machine list, in the order of hadoop.py:88-108
CommandList(ms) ==
    <<[host |-> ms[1], cmd |-> PurgeCmd]>>
        \o [k \in 1..(Len(ms) - 1) |-> [host |-> ms[k + 1], cmd |-> PurgeCmd]]
        \o <<[host |-> ms[1], cmd |-> MkdirMasterCmd]>>
        \o [k \in 1..(Len(ms) - 1) |-> [host |-> ms[k + 1], cmd |-> MkdirWorkerCmd]]
        \o << [host |-> ms[1], cmd |-> FormatCmd],
              [host |-> ms[1], cmd |-> StartDfsCmd],
              [host |-> ms[1], cmd |-> StartYarnCmd] >>

\* the variables only this call of deploy reads and writes
ThisRun == <<machines, settings, settings0, templates, chunks, ioOk, environ, unreadable,
             registry, regCall, pc, i, yarn_mb, java_home, log_aggregation, substitutions,
             globbed, cmds, log, err, run>>

\* this call has opened, has closed, the host list file f for writing
ThisOpened(f) ==
    \/ RenderCompleted
    \/ pc \in (IF f = "masters" THEN {"masters_body", "slaves", "slaves_body"} ELSE {"slaves_body"})

ThisClosed(f) ==
    \/ RenderCompleted
    \/ f = "masters" /\ pc \in {"slaves", "slaves_body"}

\* the second call has generated all its configuration files
OtherRendered == other.pc \in {"commands", "done", "failed"}

OtherOpened(f) ==
    \/ OtherRendered
    \/ other.pc \in (IF f = "masters" THEN {"masters_body", "slaves", "slaves_body"}
                                      ELSE {"slaves_body"})

OtherClosed(f) ==
    \/ OtherRendered
    \/ f = "masters" /\ other.pc \in {"slaves", "slaves_body"}

\* hadoop.py:58-65 in the second call: its own master, settings that pass validation
OtherSubstitutions ==
    Substitutions(other.machines[1], IntVal(DEFAULT_YARN_MB), FALSE, StrVal("/usr/lib/jvm/x"))

\* hadoop.py:69 in the second call
OtherListTemplates ==
    /\ other.pc = "glob"
    /\ \E order \in GlobOrders(templates) :
        other' = [other EXCEPT !.order = order, !.k = 1,
                               !.pc = IF order = <<>> THEN "masters" ELSE "templates"]
    /\ UNCHANGED <<ThisRun, files, fs>>

\* hadoop.py:72 in the second call: same config_dir (line 57)
OtherOpenTemplate ==
    /\ other.pc = "templates"
    /\ IF ~ioOk \/ other.order[other.k] \in unreadable
       THEN /\ files' = files
            /\ other' = [other EXCEPT !.pc = "io_failed"]
       ELSE /\ files' = Truncated(files, OutputName(other.order[other.k]))
            /\ other' = [other EXCEPT !.pc = "template_body"]
    /\ UNCHANGED <<ThisRun, fs>>

\* hadoop.py:73-74 in the second call, and the end of the "with" block
OtherWriteTemplate ==
    /\ other.pc = "template_body"
    /\ files' = Written(files, OutputName(other.order[other.k]),
                        RenderFile(OtherSubstitutions, templates[other.order[other.k]]))
    /\ other' = IF other.k = Len(other.order)
                THEN [other EXCEPT !.pc = "masters", !.k = 1]
                ELSE [other EXCEPT !.pc = "templates", !.k = other.k + 1]
    /\ UNCHANGED <<ThisRun, fs>>

\* the second call opens the host list file f for writing
OtherOpens(f, body) ==
    /\ IF ~ioOk
       THEN /\ files' = files
            /\ other' = [other EXCEPT !.pc = "io_failed"]
       ELSE /\ files' = Truncated(files, f)
            /\ other' = [other EXCEPT !.pc = body,
                                      !.seen[f].openedAtOpen = ThisOpened(f),
                                      !.seen[f].closedAtOpen = ThisClosed(f)]
    /\ UNCHANGED <<ThisRun, fs>>

\* the second call closes the host list file f, its text written
OtherWrites(f, text, next) ==
    /\ files' = Written(files, f, text)
    /\ other' = [other EXCEPT !.pc = next, !.k = 1, !.seen[f].openedAtClose = ThisOpened(f)]
    /\ UNCHANGED <<ThisRun, fs>>

\* hadoop.py:76 in the second call
OtherOpenMasters == other.pc = "masters" /\ OtherOpens("masters", "masters_body")

\* hadoop.py:77 in the second call
OtherWriteMasters ==
    other.pc = "masters_body" /\ OtherWrites("masters", other.machines[1] \o "\n", "slaves")

\* hadoop.py:79 in the second call
OtherOpenSlaves == other.pc = "slaves" /\ OtherOpens("slaves", "slaves_body")

\* hadoop.py:80-81 in the second call
OtherWriteSlaves ==
    other.pc = "slaves_body" /\ OtherWrites("slaves", JoinLines(Tail(other.machines)), "commands")

\* hadoop.py:85-108 in the second call: its next remote command
OtherRemoteStep ==
    /\ other.pc = "commands"
    /\ LET list == CommandList(other.machines)
           c == list[other.k]
       IN \E out \in execute_command_quietly(c.host, c.cmd, fs) :
            /\ fs' = out.fs
            /\ other' = IF ~out.ok THEN [other EXCEPT !.pc = "failed"]
                        ELSE IF other.k = Len(list) THEN [other EXCEPT !.pc = "done"]
                        ELSE [other EXCEPT !.k = other.k + 1]
    /\ UNCHANGED <<ThisRun, files>>

\* Two calls with different machine lists and valid settings, about to start.
InitTwo ==
    \E ms \in {<<"m0", "w0">>, <<"m0", "w0", "w1">>},
       oms \in {<<"w1", "w0">>, <<"w1", "m0", "w0">>},
       td \in TemplateDirs, io \in BOOLEAN :
        /\ Fresh(ms, [k \in {SETTING_JAVA_HOME} |-> StrVal("/usr/lib/jvm/x")], td, io,
                 [h \in Hosts |-> Absent])
        /\ environ = [v \in {"USER"} |-> USER]
        /\ unreadable \in SUBSET Glob(td)
        /\ other = [NoOther EXCEPT !.machines = oms, !.pc = "glob"]

NextTwo ==
    \/ ValidateTopology
    \/ ExtractSettings
    \/ BuildSubstitutions
    \/ ListTemplates
    \/ OpenTemplate
    \/ WriteTemplate
    \/ OpenMasters
    \/ WriteMasters
    \/ OpenSlaves
    \/ WriteSlaves
    \/ PurgeMaster
    \/ PurgeWorker
    \/ CreateMaster
    \/ CreateWorker
    \/ FormatNamenode
    \/ StartHDFS
    \/ StartYARN
    \/ OtherListTemplates
    \/ OtherOpenTemplate
    \/ OtherWriteTemplate
    \/ OtherOpenMasters
    \/ OtherWriteMasters
    \/ OtherOpenSlaves
    \/ OtherWriteSlaves
    \/ OtherRemoteStep

\* two calls of deploy whose steps interleave in any way
SpecTwo == InitTwo /\ [][NextTwo]_vars

\* deploy for every value of the log_aggregation setting
SpecSettings == InitSettings /\ [][Next]_vars

----------------------------------------------------------------------------
(* The framework registry and the loading of this module *)

FrameworkIds == {HadoopId, "spark"}
FrameworkNames == {HadoopName, "Other"}
VersionInputs == {FrameworkVersion(v, td) : v \in {HadoopVersion, "2.7.0"}, td \in {HadoopTemplateDir, "2.7.x"}}

\* what deploy works on, untouched by the registry
DeployState == <<machines, settings, settings0, templates, chunks, ioOk, environ, unreadable,
                 other, i, yarn_mb, java_home, log_aggregation, substitutions, globbed, files,
                 cmds, fs, log, err, run>>

\* The process before this module is imported: the registry is empty, or holds
\* what modules imported earlier have registered.
InitRegistry ==
    /\ registry \in {EmptyMap,
                     [id \in {"spark"} |-> Framework("Other")],
                     [id \in {HadoopId} |-> Framework("Other")]}
    /\ regCall = NoCall
    /\ pc = "register"
    /\ machines = <<>>
    /\ settings = EmptyMap
    /\ settings0 = EmptyMap
    /\ templates = EmptyMap
    /\ chunks = <<>>
    /\ ioOk = TRUE
    /\ environ = [v \in {"USER"} |-> USER]
    /\ unreadable = {}
    /\ other = NoOther
    /\ i = 1
    /\ yarn_mb = NoVal
    /\ java_home = NoVal
    /\ log_aggregation = FALSE
    /\ substitutions = EmptyMap
    /\ globbed = <<>>
    /\ files = EmptyMap
    /\ cmds = <<>>
    /\ fs = [h \in Hosts |-> Absent]
    /\ log = <<>>
    /\ err = NoError
    /\ run = 1

\* hadoop.py:116 with the version string and the template directory exchanged
AddHadoopVersionSwapped ==
    /\ pc = "add_version"
    /\ LET r == add_version(registry, HadoopId, FrameworkVersion(HadoopTemplateDir, HadoopVersion))
       IN /\ registry' = r.registry
          /\ regCall' = Call("add_version", HadoopId, HadoopTemplateDir, r.err)
          /\ pc' = IF r.err = "none" THEN "loaded" ELSE "import_failed"
    /\ UNCHANGED DeployState

\* hadoop.py:115
RegisterHadoop ==
    /\ pc = "register"
    /\ LET r == register_framework(registry, HadoopId, HadoopName)
       IN /\ registry' = r.registry
          /\ regCall' = Call("register_framework", HadoopId, "", r.err)
          /\ pc' = IF r.err = "none" THEN "add_version" ELSE "import_failed"
    /\ UNCHANGED DeployState

\* hadoop.py:116
AddHadoopVersion ==
    /\ pc = "add_version"
    /\ LET r == add_version(registry, HadoopId, FrameworkVersion(HadoopVersion, HadoopTemplateDir))
       IN /\ registry' = r.registry
          /\ regCall' = Call("add_version", HadoopId, HadoopVersion, r.err)
          /\ pc' = IF r.err = "none" THEN "loaded" ELSE "import_failed"
    /\ UNCHANGED DeployState

\* Some other code registers a framework once this module is loaded.
RegisterOther ==
    /\ pc = "loaded"
    /\ \E id \in FrameworkIds, name \in FrameworkNames :
        LET r == register_framework(registry, id, name)
        IN /\ registry' = r.registry
           /\ regCall' = Call("register_framework", id, "", r.err)
    /\ UNCHANGED <<pc, DeployState>>

\* Some other code adds a version to a framework once this module is loaded.
AddOtherVersion ==
    /\ pc = "loaded"
    /\ \E id \in FrameworkIds, v \in VersionInputs :
        LET r == add_version(registry, id, v)
        IN /\ registry' = r.registry
           /\ regCall' = Call("add_version", id, v.version, r.err)
    /\ UNCHANGED <<pc, DeployState>>

NextRegistry ==
    \/ RegisterHadoop
    \/ AddHadoopVersion
    \/ RegisterOther
    \/ AddOtherVersion

\* the loading of the module and the registry calls that follow it
SpecRegistry == InitRegistry /\ [][NextRegistry]_vars

\* deploy and its repetition on hosts whose scratch directories start in any state
SpecReset == InitReset /\ [][Next]_vars

----------------------------------------------------------------------------
(* Vocabulary of the properties *)

RecognizedKeys == {SETTING_JAVA_HOME, SETTING_YARN_MB, SETTING_LOG_AGGREGATION}
UnknownKeys(st) == (DOMAIN st) \ RecognizedKeys
CreateCmds == {MkdirMasterCmd, MkdirWorkerCmd}
Positions == 1..Len(machines)
WorkerHosts == {machines[p] : p \in 2..Len(machines)}
LastCmd == cmds[Len(cmds)]

\* deploy raised during validation, before rendering and before any remote command
FailedInValidation ==
    pc = "failed" /\ (err.kind = "InvalidSetupError" \/ err = KeyError(SETTING_JAVA_HOME))

----------------------------------------------------------------------------
\* C1: with a machine list of length 0 or 1, whatever the settings, deploy never
\* gets past the topology check: it fails with the invalid-setup error about the
\* topology, and no remote command is executed on any host.
C1_TooFewMachinesFail ==
    Len(machines) < 2 =>
        /\ pc \in {"start", "failed"}
        /\ cmds = <<>>
        /\ \A h \in Hosts : fs[h] = Absent
        /\ pc = "failed" => err = InvalidTopology

C1_Witness ==
    /\ Len(machines) = 1
    /\ UnknownKeys(settings0) # {}
    /\ pc = "failed"
    /\ err = InvalidTopology

\* C2: with at least two machines and a settings map holding a key outside the
\* recognized set, deploy fails with the unsupported-setting error that lists
\* exactly the unrecognized keys, and no remote command was executed.
C2_UnknownSettingsRejected ==
    (Len(machines) >= 2 /\ UnknownKeys(settings0) # {}) =>
        /\ pc \in {"start", "extract", "failed"}
        /\ cmds = <<>>
        /\ pc = "failed" => err = UnknownSettings(UnknownKeys(settings0))

\* C3: with at least two machines and no java_home in the settings map, deploy
\* fails with the validation error used for unsupported settings, naming
\* java_home; no remote command is executed and no configuration file written.
C3_MissingJavaHomeIsValidationError ==
    (Len(machines) >= 2 /\ SETTING_JAVA_HOME \notin DOMAIN settings0) =>
        /\ pc \in {"start", "extract", "failed"}
        /\ cmds = <<>>
        /\ files = EmptyMap
        /\ pc = "failed" => (err.kind = "InvalidSetupError" /\ SETTING_JAVA_HOME \in err.keys)

\* C4: when a remote command fails, the run ends there: the failed command is
\* the last of the run, deploy has raised the error of that command, the failing
\* step leaves every host as the earlier commands left it (nothing is undone),
\* and after the failure nothing changes on any host until the caller calls
\* deploy again.
C4_FailureAborts ==
    [][ /\ \A k \in 1..(Len(cmds') - 1) : cmds'[k].ok
        /\ (cmds' # <<>> /\ ~cmds'[Len(cmds')].ok) =>
              /\ pc' = "failed"
              /\ err' = RemoteCommandError(cmds'[Len(cmds')].host, cmds'[Len(cmds')].cmd)
        /\ (pc # "failed" /\ pc' = "failed" /\ err'.kind = "RemoteCommandError") =>
              /\ fs' = fs
              /\ SubSeq(cmds', 1, Len(cmds)) = cmds
              /\ Len(cmds') = Len(cmds) + 1
        /\ pc = "failed" => (fs' = fs /\ (cmds' = cmds \/ (run' = run + 1 /\ cmds' = <<>>)))
      ]_vars

C4_Witness ==
    /\ pc = "failed"
    /\ err.kind = "RemoteCommandError"
    /\ Len(cmds) >= 4
    /\ LastCmd.cmd = MkdirWorkerCmd
    /\ ~LastCmd.ok
    /\ fs[machines[1]] = Dir({})
    /\ machines[2] # machines[1]

\* C5: the phases run in the order reset, format, start-dfs, start-yarn: format
\* is executed only after one purge and one create per machine of the list have
\* succeeded (so on every host), start-dfs only after format succeeded,
\* start-yarn only after start-dfs succeeded, and no reset command follows a
\* service command.
C5_PhaseOrder ==
    \A k \in 1..Len(cmds) :
        LET Before(C) == {a \in 1..(k - 1) : cmds[a].cmd \in C /\ cmds[a].ok}
        IN /\ cmds[k].cmd = FormatCmd =>
                /\ Cardinality(Before({PurgeCmd})) = Len(machines)
                /\ Cardinality(Before(CreateCmds)) = Len(machines)
                /\ \A p \in Positions :
                      /\ \E a \in Before({PurgeCmd}) : cmds[a].host = machines[p]
                      /\ \E a \in Before(CreateCmds) : cmds[a].host = machines[p]
           /\ cmds[k].cmd = StartDfsCmd => Before({FormatCmd}) # {}
           /\ cmds[k].cmd = StartYarnCmd => Before({StartDfsCmd}) # {}
           /\ cmds[k].cmd \notin ServiceCmds => Before(ServiceCmds) = {}

C5_Witness ==
    /\ pc = "done"
    /\ Len(machines) = 3
    /\ machines[2] # machines[3]
    /\ LastCmd.cmd = StartYarnCmd
    /\ LastCmd.ok

\* C6 as claimed: hosts are handled one after the other, each host's scratch
\* directory being removed and recreated before any command is sent to the next
\* host. Stated for machine lists without duplicates: the command that follows
\* the purge of a host is the create on that host.
C6_HostByHost ==
    Cardinality({machines[p] : p \in Positions}) = Len(machines) =>
        \A k \in 1..(Len(cmds) - 1) :
            cmds[k].cmd = PurgeCmd =>
                (cmds[k + 1].cmd \in CreateCmds /\ cmds[k + 1].host = cmds[k].host)

\* C6 as amended: the reset phase makes two passes over the machine list, each
\* in list order (master first, then the workers as given): the first removes
\* every host's scratch directory, the second recreates it; each command is sent
\* only after the one before it succeeded.
C6_TwoPassesInListOrder ==
    LET n == Len(machines)
    IN \A k \in 1..Len(cmds) :
        /\ k <= n => (cmds[k].host = machines[k] /\ cmds[k].cmd = PurgeCmd)
        /\ (n < k /\ k <= 2 * n) =>
              /\ cmds[k].host = machines[k - n]
              /\ cmds[k].cmd = (IF k - n = 1 THEN MkdirMasterCmd ELSE MkdirWorkerCmd)
        /\ k > 2 * n => cmds[k].cmd \in ServiceCmds
        /\ k > 1 => cmds[k - 1].ok

C6_Witness ==
    /\ Len(machines) = 3
    /\ Cardinality({machines[p] : p \in Positions}) = 3
    /\ Len(cmds) = 6
    /\ LastCmd.ok
    /\ pc = "format"

\* C7 as claimed: the service commands go to machines[0] only, and a host at a
\* position >= 1 of the list receives only purge and create commands.
C7_WorkersGetOnlyReset ==
    \A k \in 1..Len(cmds) :
        /\ cmds[k].cmd \in ServiceCmds => cmds[k].host = machines[1]
        /\ cmds[k].host \in WorkerHosts => cmds[k].cmd \in {PurgeCmd} \cup CreateCmds

\* C7 as amended: the service commands and the flat create go to machines[0]
\* only; a host other than machines[0] receives only the purge and the create
\* of the two subdirectories; the two-subdirectory create goes only to hosts
\* listed at a position >= 1.
C7_ServicesOnMasterOnly ==
    \A k \in 1..Len(cmds) :
        /\ cmds[k].cmd \in ServiceCmds \cup {MkdirMasterCmd} => cmds[k].host = machines[1]
        /\ cmds[k].host # machines[1] => cmds[k].cmd \in {PurgeCmd, MkdirWorkerCmd}
        /\ cmds[k].cmd = MkdirWorkerCmd => cmds[k].host \in WorkerHosts

C7_Witness ==
    /\ pc = "done"
    /\ Len(machines) = 3
    /\ machines[2] = machines[1]
    /\ machines[3] # machines[1]

\* C8: once a run is past settings extraction (it renders, runs remote commands,
\* has finished, or failed later than validation) the caller's settings map is
\* empty; nothing is rendered and no command is run while it holds a key.
C8_SettingsConsumed ==
    /\ (pc \notin {"start", "extract"} /\ ~FailedInValidation) => DOMAIN settings = {}
    /\ (cmds # <<>> \/ substitutions # EmptyMap) => DOMAIN settings = {}

C8_Witness ==
    /\ pc = "done"
    /\ DOMAIN settings0 = RecognizedKeys
    /\ DOMAIN settings = {}

\* C9 as claimed: whatever the scratch directories held before, every reset
\* phase (of the first call and of a repeated call) ends with the master's
\* scratch directory empty and each worker's holding exactly tmp and datanode.
C9_ResetMasterEmpty ==
    pc = "format" =>
        /\ fs[machines[1]] = Dir({})
        /\ \A h \in WorkerHosts : fs[h] = Dir({"tmp", "datanode"})

\* C9 as amended: whatever the scratch directories held before, every reset
\* phase (of the first call and of a repeated call) ends in the same state, fixed
\* by the topology alone: each host listed as a worker holds exactly tmp and
\* datanode, and the master's directory is empty unless the master is also
\* listed as a worker.
C9_ResetIdempotent ==
    pc = "format" =>
        /\ \A h \in WorkerHosts : fs[h] = Dir({"tmp", "datanode"})
        /\ machines[1] \notin WorkerHosts => fs[machines[1]] = Dir({})

C9_Witness ==
    /\ pc = "format"
    /\ run = 2
    /\ Len(machines) = 3
    /\ machines[1] \notin WorkerHosts
    /\ machines[2] # machines[3]
    /\ fs[machines[1]] = Dir({})
    /\ fs[machines[3]] = Dir({"tmp", "datanode"})

\* The text of the line under study, without its trailing blanks.
RECURSIVE StripChunks(_)
StripChunks(cs) ==
    IF cs # <<>> /\ cs[Len(cs)] \in Whitespace
    THEN StripChunks(SubSeq(cs, 1, Len(cs) - 1))
    ELSE cs

\* Each chunk that is a key of the table replaced by its value, the others kept.
RECURSIVE MapChunks(_, _)
MapChunks(subst, cs) ==
    IF cs = <<>> THEN ""
    ELSE (IF Head(cs) \in DOMAIN subst THEN subst[Head(cs)].s ELSE Head(cs))
            \o MapChunks(subst, Tail(cs))

\* The positions of the text of cs at which a chunk that is a key starts.
KeyChunkStarts(subst, cs) ==
    {Len(Flatten(SubSeq(cs, 1, k - 1))) + 1 : k \in {j \in 1..Len(cs) : cs[j] \in DOMAIN subst}}

\* The positions of s at which some key of the table occurs.
Occurrences(subst, s) ==
    {p \in 1..Len(s) : \E key \in DOMAIN subst : MatchAt(s, p, key)}

\* The keys occur in the line exactly where its key chunks are.
KeysAreChunks ==
    Occurrences(substitutions, Flatten(StripChunks(chunks)))
        = KeyChunkStarts(substitutions, StripChunks(chunks))

\* The example line of the specification, "master=__MASTER__ mb=__YARN_MB__" with
\* master node0 and 8192 MB, rendered as "master=node0 mb=8192".
C10_SpecExample ==
    /\ pc = "masters"
    /\ machines[1] = "node0"
    /\ chunks = <<"master=", "__MASTER__", " mb=", "__YARN_MB__">>
    /\ files[OutputName(StudyTemplate)] = "master=node0 mb=8192\n"

\* C10: rendering is one left-to-right pass over the keys of the table. For every
\* line whose occurrences of keys are exactly its key chunks, the rendered line is
\* the line (without trailing blanks) with each key chunk replaced by its value
\* and every other chunk unchanged, followed by a newline; the replacement text
\* is not scanned again, also when it is itself a key.
C10_SinglePassRendering ==
    (pc = "masters" /\ DOMAIN templates = {StudyTemplate} /\ KeysAreChunks) =>
        files[OutputName(StudyTemplate)]
            = MapChunks(substitutions, StripChunks(chunks)) \o "\n"

C10_Witness ==
    /\ pc = "masters"
    /\ machines[1] = "__YARN_MB__"
    /\ chunks = <<"master=", "__MASTER__", "__OTHER__", " ">>
    /\ KeysAreChunks
    /\ files[OutputName(StudyTemplate)] = "master=__YARN_MB____OTHER__\n"

----------------------------------------------------------------------------
(* C11 *)

RECURSIVE HostLines(_, _)
HostLines(ms, from) ==
    IF from > Len(ms) THEN "" ELSE ms[from] \o "\n" \o HostLines(ms, from + 1)

\* C11: once a run has generated all its files, whatever the number of
\* template files, the file "masters" holds the one line machines[0], the file
\* "slaves" holds machines[1:], one host per line in the given order, and the
\* first log message records len(machines) - 1 workers.
C11_HostListsWritten ==
    RenderCompleted =>
        /\ {"masters", "slaves"} \subseteq DOMAIN files
        /\ files["masters"] = machines[1] \o "\n"
        /\ files["slaves"] = HostLines(machines, 2)
        /\ log[1] = Msg(0, "Selected Hadoop master \"" \o machines[1] \o "\", with "
                              \o ToStr(Len(machines) - 1) \o " workers.")
        /\ \A n \in Glob(templates) : OutputName(n) \in DOMAIN files

C11_Witness ==
    /\ RenderCompleted
    /\ templates = EmptyMap
    /\ machines = <<"m0", "w0", "w1">>
    /\ files["slaves"] = "w0\nw1\n"
    /\ DOMAIN files = {"masters", "slaves"}
    /\ log[1][2] = "Selected Hadoop master \"m0\", with 2 workers."

----------------------------------------------------------------------------
(* C13 *)

OnlyJavaHome == DOMAIN settings0 = {SETTING_JAVA_HOME}

\* C13: once the substitution table is built, an absent yarn_memory_mb gives
\* __YARN_MB__ = "4096" and an absent log_aggregation gives
\* __LOG_AGGREGATION__ = "false"; a run on two or more machines whose settings
\* map holds only java_home never stops at validation; when java_home is a
\* string and the USER variable is set it can only fail by a failing remote
\* command or local file I/O, and it ends deployed, with all 2n+3 commands run
\* and successful, when neither happens.
C13_OptionalSettingsDefault ==
    /\ substitutions # EmptyMap =>
          /\ SETTING_YARN_MB \notin DOMAIN settings0 =>
                 substitutions["__YARN_MB__"] = StrVal("4096")
          /\ SETTING_LOG_AGGREGATION \notin DOMAIN settings0 =>
                 substitutions["__LOG_AGGREGATION__"] = StrVal("false")
    /\ OnlyJavaHome /\ Len(machines) >= 2 =>
          /\ ~FailedInValidation
          /\ (pc = "failed" /\ settings0[SETTING_JAVA_HOME].t = "str" /\ "USER" \in DOMAIN environ)
                 => err.kind \in {"RemoteCommandError", "IOError"}
          /\ pc = "done" => /\ Len(cmds) = 2 * Len(machines) + 3
                            /\ \A k \in 1..Len(cmds) : cmds[k].ok
                            /\ LastCmd.cmd = StartYarnCmd

C13_Witness ==
    /\ OnlyJavaHome
    /\ pc = "done"
    /\ Len(cmds) = 2 * Len(machines) + 3
    /\ substitutions["__YARN_MB__"] = StrVal("4096")
    /\ substitutions["__LOG_AGGREGATION__"] = StrVal("false")

----------------------------------------------------------------------------
(* C19 *)

JAVA_HOME_TOKEN == "${JAVA_HOME}"

JavaHomeGiven == SETTING_JAVA_HOME \in DOMAIN settings0

\* the value given for java_home is empty: Python takes it as false
JavaHomeEmpty == settings0[SETTING_JAVA_HOME] \in {StrVal(""), IntVal(0), BoolVal(FALSE), NoVal}

\* the rendering of yarn-site.xml.template with the token standing as java
ExpectedYarnSite(java) ==
    "master=" \o machines[1] \o " mb=" \o substitutions["__YARN_MB__"].s \o "\n"
        \o "java=" \o java \o " agg=" \o substitutions["__LOG_AGGREGATION__"].s \o " __OTHER__\n"

\* C19: with java_home present, a non-empty value puts ${JAVA_HOME} in the
\* substitution table mapped to that value and, once the files are generated,
\* every token is rendered as it; an empty value is no validation failure,
\* leaves the table without a ${JAVA_HOME} entry, and every ${JAVA_HOME} token
\* of a template is written to the output unchanged.
C19_JavaHomeOptionalValue ==
    JavaHomeGiven =>
        /\ (JavaHomeEmpty /\ Len(machines) >= 2 /\ UnknownKeys(settings0) = {})
               => ~FailedInValidation
        /\ substitutions # EmptyMap =>
              IF JavaHomeEmpty
              THEN JAVA_HOME_TOKEN \notin DOMAIN substitutions
              ELSE /\ JAVA_HOME_TOKEN \in DOMAIN substitutions
                   /\ substitutions[JAVA_HOME_TOKEN] = settings0[SETTING_JAVA_HOME]
        /\ (RenderCompleted /\ "yarn-site.xml.template" \in DOMAIN templates) =>
              files["yarn-site.xml"] =
                  ExpectedYarnSite(IF JavaHomeEmpty THEN JAVA_HOME_TOKEN
                                   ELSE settings0[SETTING_JAVA_HOME].s)

C19_Witness ==
    /\ JavaHomeGiven
    /\ JavaHomeEmpty
    /\ pc = "done"
    /\ JAVA_HOME_TOKEN \notin DOMAIN substitutions
    /\ "yarn-site.xml" \in DOMAIN files
    /\ files["yarn-site.xml"] = "master=m0 mb=4096\njava=${JAVA_HOME} agg=false __OTHER__\n"

----------------------------------------------------------------------------
(* C20 *)

Restrict(map, keys) == [k \in (DOMAIN map) \cap keys |-> map[k]]

\* C20: the caller's settings map after a failed validation. After a failed
\* topology check it is the map passed in and nothing was logged; after a
\* failure for unknown settings it holds exactly the unrecognized keys with
\* their original values; after a failure for a missing java_home it is the
\* map passed in without yarn_memory_mb (log_aggregation and the unknown keys
\* are still there).
C20_SettingsAfterFailedValidation ==
    FailedInValidation =>
        CASE err = InvalidTopology ->
                 settings = settings0 /\ log = <<>>
          [] err.kind = "KeyError" ->
                 /\ settings = Restrict(settings0, (DOMAIN settings0) \ {SETTING_YARN_MB})
                 /\ SETTING_YARN_MB \notin DOMAIN settings
                 /\ SETTING_LOG_AGGREGATION \in DOMAIN settings0
                        => SETTING_LOG_AGGREGATION \in DOMAIN settings
                 /\ UnknownKeys(settings0) \subseteq DOMAIN settings
          [] OTHER ->
                 /\ err = UnknownSettings(UnknownKeys(settings0))
                 /\ settings = Restrict(settings0, UnknownKeys(settings0))
                 /\ DOMAIN settings = UnknownKeys(settings0)
                 /\ DOMAIN settings # {}

C20_Witness ==
    /\ FailedInValidation
    /\ err.kind = "KeyError"
    /\ DOMAIN settings0 = {SETTING_YARN_MB, SETTING_LOG_AGGREGATION, "bogus"}
    /\ DOMAIN settings = {SETTING_LOG_AGGREGATION, "bogus"}
    /\ settings["bogus"] = settings0["bogus"]

----------------------------------------------------------------------------
(* C18 *)

\* the reset phase has run to its end: every purge and every create succeeded
ResetCompleted == pc = "format"

\* C18: within one run no purge command is executed after a directory-create
\* command; and when the reset phase has succeeded, also for a machine list
\* with repeated hosts, every host of the list has its scratch directory and
\* every host listed as a worker has the tmp and datanode subdirectories.
C18_PurgesBeforeCreates ==
    /\ \A j \in 1..Len(cmds), k \in 1..Len(cmds) :
           (j < k /\ cmds[j].cmd \in CreateCmds) => cmds[k].cmd # PurgeCmd
    /\ ResetCompleted =>
           /\ \A p \in Positions : fs[machines[p]].exists
           /\ \A h \in WorkerHosts : {"tmp", "datanode"} \subseteq fs[h].entries

C18_Witness ==
    /\ ResetCompleted
    /\ machines = <<"m0", "m0", "w0">>
    /\ Len(cmds) = 6
    /\ cmds[4].cmd = MkdirMasterCmd /\ cmds[4].host = "m0"
    /\ cmds[5].cmd = MkdirWorkerCmd /\ cmds[5].host = "m0"
    /\ fs["m0"] = Dir({"tmp", "datanode"})
    /\ fs["w0"] = Dir({"tmp", "datanode"})

----------------------------------------------------------------------------
(* C12 *)

TrueList == {"true", "t", "yes", "y", "1"}

\* c is the character d of a true-list word, in lower or in upper case
SameLetter(c, d) ==
    \/ c = d
    \/ \E j \in 1..Len(Lowercase) : SubSeq(Lowercase, j, j) = d /\ SubSeq(Upper, j, j) = c

\* text is a word of the true-list written in any mix of cases
IsTrueSpelling(text) ==
    \E w \in TrueList :
        /\ Len(text) = Len(w)
        /\ \A j \in 1..Len(w) : SameLetter(SubSeq(text, j, j), SubSeq(w, j, j))

LogAggregationGiven == SETTING_LOG_AGGREGATION \in DOMAIN settings0

\* C12: the __LOG_AGGREGATION__ substitution is "true" exactly when the string
\* form of the supplied log_aggregation value, case ignored, is one of true, t,
\* yes, y, 1, and "false" for every other value; and whatever the value, the
\* run does not fail in validation or rendering.
C12_LogAggregationParsing ==
    /\ "__LOG_AGGREGATION__" \in DOMAIN substitutions =>
           substitutions["__LOG_AGGREGATION__"] =
               IF LogAggregationGiven /\ IsTrueSpelling(PyStr(settings0[SETTING_LOG_AGGREGATION]))
               THEN StrVal("true") ELSE StrVal("false")
    /\ pc = "failed" => err.kind = "RemoteCommandError"
    /\ RenderCompleted => "__LOG_AGGREGATION__" \in DOMAIN substitutions

C12_Witness ==
    /\ LogAggregationGiven
    /\ settings0[SETTING_LOG_AGGREGATION] = StrVal("YES")
    /\ pc = "done"
    /\ substitutions["__LOG_AGGREGATION__"] = StrVal("true")
    /\ "yarn-site.xml" \in DOMAIN files
    /\ files["yarn-site.xml"] = "master=m0 mb=4096\njava=/usr/lib/jvm/x agg=true __OTHER__\n"

----------------------------------------------------------------------------
(* C14 *)

SuccessMsg == Msg(1, "Hadoop cluster deployed.")

\* the log_fn calls of a run that completes, in the order of hadoop.py:42-110,
\* for templates found in the given order
FullNarration(order) ==
    << Msg(0, "Selected Hadoop master \"" \o machines[1] \o "\", with "
                  \o ToStr(Len(machines) - 1) \o " workers."),
       Msg(1, "Generating configuration files...") >>
    \o [k \in 1..Len(order) |-> Msg(2, "Generating file \"" \o OutputName(order[k]) \o "\"...")]
    \o << Msg(2, "Generating file \"masters\"..."),
          Msg(2, "Generating file \"slaves\"..."),
          Msg(2, "Configuration files generated."),
          Msg(1, "Creating a clean environment on the master and workers..."),
          Msg(2, "Purging \"/local/alice/hadoop/\" on master..."),
          Msg(2, "Purging \"/local/alice/hadoop/\" on workers..."),
          Msg(2, "Creating directory structure on master..."),
          Msg(2, "Creating directory structure on workers..."),
          Msg(2, "Clean environment set up."),
          Msg(1, "Deploying HDFS..."),
          Msg(2, "Formatting namenode..."),
          Msg(2, "Starting HDFS..."),
          Msg(1, "Deploying YARN..."),
          SuccessMsg >>

\* the number of log_fn calls that precede the c-th remote command of a run
\* with t templates and w workers
MsgsBeforeCmd(c, t, w) ==
    t + (IF c = 1 THEN 7
         ELSE IF c <= w + 1 THEN 8
         ELSE IF c = w + 2 THEN 9
         ELSE IF c <= 2 * w + 2 THEN 10
         ELSE IF c = 2 * w + 3 THEN 13
         ELSE IF c = 2 * w + 4 THEN 14
         ELSE 15)

AllCommandsSucceeded ==
    /\ Len(cmds) = 2 * Len(machines) + 3
    /\ \A k \in 1..Len(cmds) : cmds[k].ok

\* the number of log_fn calls made so far, by the point the run has reached,
\* with t templates listed: a run that is about to open a file has not yet
\* announced it; a run that has executed its c-th command, or failed in it,
\* has made the calls that precede that command
Emitted ==
    LET t == Len(globbed)
        w == Len(machines) - 1
    IN CASE pc = "start" \/ (pc = "failed" /\ err = InvalidTopology) -> 0
         [] pc \in {"extract", "render", "glob"} \/ FailedInValidation -> 1
         [] pc = "failed" /\ err = KeyError("USER") -> 1
         [] pc = "templates" -> 1 + i
         [] pc = "template_body" -> 2 + i
         [] pc = "failed" /\ err.kind \in {"IOError", "TypeError"} ->
                \* stopped at the i-th template, or at "masters" when there is none
                IF t = 0 THEN 3 ELSE 2 + i
         [] pc = "masters" -> t + 2
         [] pc \in {"masters_body", "slaves"} -> t + 3
         [] pc \in {"slaves_body", "purge_master"} -> t + 4
         [] pc = "done" -> t + 16
         [] OTHER -> MsgsBeforeCmd(Len(cmds), t, w)

\* C14: the log is, at every point of a run, the narration of the protocol up
\* to the step the run has reached or failed at: all messages before that step
\* and none after it. The success message is logged if and only if all 2n+3
\* remote commands succeeded, and is then the last event; every level is one
\* of 0, 1, 2.
C14_NarrationTracksProtocol ==
    /\ Len(log) = Emitted
    /\ log # <<>> => log = SubSeq(FullNarration(globbed), 1, Len(log))
    /\ globbed # <<>> => globbed \in GlobOrders(templates)
    /\ (\E k \in 1..Len(log) : log[k] = SuccessMsg) <=> AllCommandsSucceeded
    /\ AllCommandsSucceeded => log[Len(log)] = SuccessMsg /\ pc = "done"
    /\ \A k \in 1..Len(log) : log[k][1] \in {0, 1, 2}

C14_Witness ==
    /\ pc = "failed"
    /\ err.kind = "RemoteCommandError"
    /\ Len(machines) = 3
    /\ Glob(templates) # {}
    /\ Len(cmds) = 5
    /\ LastCmd.cmd = MkdirWorkerCmd
    /\ Len(log) = 11
    /\ log[Len(log)] = Msg(2, "Creating directory structure on workers...")

----------------------------------------------------------------------------
(* C16 *)

\* the points of deploy at which it generates the configuration files
RenderSteps == {"render", "glob", "templates", "template_body", "masters", "masters_body",
                "slaves", "slaves_body"}

\* deploy raised while it generated the configuration files
RenderFailed ==
    pc = "failed" /\ (err.kind \in {"IOError", "TypeError"} \/ err = KeyError("USER"))

\* C16: in every run, when the first remote command has been executed every
\* template has been rendered into the configuration directory, and then and
\* from then on both host-list files hold the run's master and workers; a run
\* whose rendering fails, because a template cannot be read or an output file
\* cannot be written (or the table cannot be built or applied), has executed
\* no remote command and touched no host.
C16_RenderBeforeRemote ==
    /\ Len(cmds) = 1 =>
           /\ \A n \in Glob(templates) :
                 /\ OutputName(n) \in DOMAIN files
                 /\ files[OutputName(n)] = RenderFile(substitutions, templates[n])
           /\ DOMAIN files = {OutputName(n) : n \in Glob(templates)} \cup {"masters", "slaves"}
           /\ \A n \in DOMAIN templates : SubSeq(n, 1, 1) = "." => OutputName(n) \notin DOMAIN files
    /\ cmds # <<>> =>
           /\ ioOk /\ unreadable = {} /\ "USER" \in DOMAIN environ
           /\ {OutputName(n) : n \in Glob(templates)} \cup {"masters", "slaves"} \subseteq DOMAIN files
           /\ files["masters"] = machines[1] \o "\n"
           /\ files["slaves"] = HostLines(machines, 2)
    /\ pc \in RenderSteps => cmds = <<>>
    /\ RenderFailed =>
           /\ \/ ~ioOk
              \/ unreadable # {}
              \/ "USER" \notin DOMAIN environ
              \/ settings0[SETTING_JAVA_HOME].t # "str"
           /\ cmds = <<>>
           /\ run = 1 => fs = [h \in Hosts |-> Absent] /\ "slaves" \notin DOMAIN files
    /\ (RenderCompleted \/ RenderFailed) <=>
           (pc \notin {"start", "extract"} \cup RenderSteps /\ ~FailedInValidation)
    /\ (~ioOk \/ unreadable # {} \/ "USER" \notin DOMAIN environ) => ~RenderCompleted

C16_Witness ==
    /\ RenderFailed
    /\ ioOk
    /\ unreadable = {"yarn-site.xml.template"}
    /\ cmds = <<>>
    /\ Len(machines) = 3
    /\ log[Len(log)] = Msg(2, "Generating file \"yarn-site.xml\"...")

----------------------------------------------------------------------------
(* C15 *)

\* C15: a register_framework call for an identifier that is already
\* registered raises DuplicateFrameworkError and leaves the registry, hence
\* the first registration, as it was; an add_version call with a version
\* string the framework already holds raises DuplicateVersionError and adds
\* nothing; and when the loading of the module completes, the registry maps
\* "hadoop" to a framework holding exactly the version "2.6.0".
C15_RegistryUniqueness ==
    [][ /\ (regCall'.op = "register_framework" /\ regCall'.id \in DOMAIN registry) =>
               /\ regCall'.err = "DuplicateFrameworkError"
               /\ registry' = registry
        /\ (/\ regCall'.op = "add_version"
            /\ regCall'.id \in DOMAIN registry
            /\ regCall'.version \in VersionStrings(registry[regCall'.id])) =>
               /\ regCall'.err = "DuplicateVersionError"
               /\ registry' = registry
        /\ (pc = "add_version" /\ pc' = "loaded") =>
               /\ "hadoop" \in DOMAIN registry'
               /\ VersionStrings(registry'["hadoop"]) = {"2.6.0"}
               /\ Len(registry'["hadoop"].versions) = 1
               /\ registry'["hadoop"].name = "Hadoop"
        /\ \A id \in DOMAIN registry' :
               \A j \in 1..Len(registry'[id].versions), k \in 1..Len(registry'[id].versions) :
                   registry'[id].versions[j].version = registry'[id].versions[k].version => j = k
      ]_vars

C15_Witness ==
    /\ pc = "loaded"
    /\ regCall = Call("register_framework", "hadoop", "", "DuplicateFrameworkError")
    /\ registry["hadoop"].name = "Hadoop"
    /\ VersionStrings(registry["hadoop"]) = {"2.6.0"}

----------------------------------------------------------------------------
(* C17 *)

ThisAtStart == pc \in {"start_dfs", "start_yarn"}
OtherAtStart ==
    other.pc = "commands" /\ CommandList(other.machines)[other.k].cmd \in {StartDfsCmd, StartYarnCmd}

HostListsOf(ms) ==
    /\ {"masters", "slaves"} \subseteq DOMAIN files
    /\ files["masters"] = ms[1] \o "\n"
    /\ files["slaves"] = HostLines(ms, 2)

\* C17 as stated: whenever one of two interleaving runs is about to execute
\* its start-dfs or start-yarn command, the files masters and slaves under
\* the shared install root hold that run's own master and workers.
C17_OwnHostListsAtStart ==
    /\ ThisAtStart => HostListsOf(machines)
    /\ OtherAtStart => HostListsOf(other.machines)

HostListText(ms, f) == IF f = "masters" THEN ms[1] \o "\n" ELSE HostLines(ms, 2)

\* the second call has opened or closed the file f since this call opened it
OtherTouchedAfterThis(f) ==
    \/ OtherOpened(f) /\ other.seen[f].openedAtOpen
    \/ OtherClosed(f) /\ other.seen[f].openedAtClose

\* this call has opened or closed the file f since the second call opened it
ThisTouchedAfterOther(f) ==
    /\ OtherOpened(f)
    /\ \/ ThisOpened(f) /\ ~other.seen[f].openedAtOpen
       \/ ThisClosed(f) /\ ~other.seen[f].closedAtOpen

\* C17, amended: the two runs write the same masters and slaves files, one
\* file at a time and without a lock. A file a run has written holds that
\* run's hosts as long as the other run has neither opened nor closed it since
\* the run opened it; so a run about to execute its start-dfs or start-yarn
\* command finds its own master and workers in the two files when the other
\* run has touched neither since.
C17_LastRenderWins ==
    /\ \A f \in {"masters", "slaves"} :
           (ThisClosed(f) /\ ~OtherTouchedAfterThis(f)) =>
               f \in DOMAIN files /\ files[f] = HostListText(machines, f)
    /\ \A f \in {"masters", "slaves"} :
           (OtherClosed(f) /\ ~ThisTouchedAfterOther(f)) =>
               f \in DOMAIN files /\ files[f] = HostListText(other.machines, f)
    /\ (ThisAtStart /\ \A f \in {"masters", "slaves"} : ~OtherTouchedAfterThis(f))
           => HostListsOf(machines)
    /\ (OtherAtStart /\ \A f \in {"masters", "slaves"} : ~ThisTouchedAfterOther(f))
           => HostListsOf(other.machines)

\* the runs interleave without harm to this one: the other run wrote its
\* files first and is still executing commands when this one starts YARN
C17_Witness ==
    /\ pc = "start_yarn"
    /\ other.pc = "commands"
    /\ \A f \in {"masters", "slaves"} : ~OtherTouchedAfterThis(f)
    /\ HostListsOf(machines)
    /\ ~HostListsOf(other.machines)
    /\ machines = <<"m0", "w0", "w1">>

====
